---- MODULE Spec2Model ----
(***************************************************************************)
(* Donut chart engine of the reporting screen (CustomPieChart): the        *)
(* segment computation, the path builder, the hit regions and the          *)
(* selection state, with the JavaScript number arithmetic the component    *)
(* performs modelled as IEEE-754 binary64 (round to nearest, ties to       *)
(* even).                                                                  *)
(***************************************************************************)
EXTENDS Integers, Sequences, FiniteSets, TLC

(***************************************************************************)
(* JavaScript numbers.  A finite number is sign * m * 2^-80, with m a       *)
(* natural number held as NLimbs little-endian limbs of LimbBits bits, of  *)
(* which FracLimbs hold the fraction.  Every binary64 value the chart      *)
(* computes from the inputs of this model is a multiple of 2^-80 below     *)
(* 2^32, so the representation is exact, and rounding is done where the    *)
(* code's operators round: to Mantissa significant bits after every        *)
(* operation.                                                              *)
(***************************************************************************)
Mantissa == 53
LimbBits == 16
FracLimbs == 5
NLimbs == FracLimbs + 2

RECURSIVE Pow2(_)
Pow2(k) == IF k = 0 THEN 1 ELSE 2 * Pow2(k - 1)

Base == Pow2(LimbBits)

BZero == [i \in 1..NLimbs |-> 0]

\* the natural number n < 2^31 as an integer-valued magnitude
BFromInt(n) ==
    [i \in 1..NLimbs |->
        IF i = FracLimbs + 1 THEN n % Base
        ELSE IF i = FracLimbs + 2 THEN n \div Base
        ELSE 0]

RECURSIVE AddLimbs(_, _, _, _)
AddLimbs(a, b, i, carry) ==
    IF i > NLimbs THEN <<>>
    ELSE LET s == a[i] + b[i] + carry
         IN  <<s % Base>> \o AddLimbs(a, b, i + 1, s \div Base)

BAdd(a, b) == AddLimbs(a, b, 1, 0)

RECURSIVE SubLimbs(_, _, _, _)
SubLimbs(a, b, i, borrow) ==
    IF i > NLimbs THEN <<>>
    ELSE LET s == a[i] - b[i] - borrow
         IN  IF s < 0 THEN <<s + Base>> \o SubLimbs(a, b, i + 1, 1)
             ELSE <<s>> \o SubLimbs(a, b, i + 1, 0)

\* a - b for a >= b
BSub(a, b) == SubLimbs(a, b, 1, 0)

RECURSIVE CmpLimbs(_, _, _)
CmpLimbs(a, b, i) ==
    IF i = 0 THEN 0
    ELSE IF a[i] > b[i] THEN 1
    ELSE IF a[i] < b[i] THEN -1
    ELSE CmpLimbs(a, b, i - 1)

\* -1, 0, 1 as a < b, a = b, a > b
BCmp(a, b) == CmpLimbs(a, b, NLimbs)

RECURSIVE MulLimbs(_, _, _, _)
MulLimbs(a, n, i, carry) ==
    IF i > NLimbs THEN <<>>
    ELSE LET s == a[i] * n + carry
         IN  <<s % Base>> \o MulLimbs(a, n, i + 1, s \div Base)

\* a * n for a natural number n < 2^15
BMulSmall(a, n) == MulLimbs(a, n, 1, 0)

RECURSIVE DivLimbs(_, _, _, _)
DivLimbs(a, n, i, rem) ==
    IF i = 0 THEN [q |-> <<>>, r |-> rem]
    ELSE LET cur  == rem * Base + a[i]
             rest == DivLimbs(a, n, i - 1, cur % n)
         IN  [q |-> Append(rest.q, cur \div n), r |-> rest.r]

\* floor(a / n) and the remainder, for a natural number 0 < n < 2^15
BDivSmall(a, n) == DivLimbs(a, n, NLimbs, 0)

RECURSIVE TopLimb(_, _)
TopLimb(a, i) == IF i = 0 THEN 0 ELSE IF a[i] # 0 THEN i ELSE TopLimb(a, i - 1)

RECURSIVE BitLen(_)
BitLen(x) == IF x = 0 THEN 0 ELSE 1 + BitLen(x \div 2)

\* number of significant bits of a (0 for zero)
BBits(a) ==
    LET t == TopLimb(a, NLimbs)
    IN  IF t = 0 THEN 0 ELSE (t - 1) * LimbBits + BitLen(a[t])

BBit(a, j) == (a[(j \div LimbBits) + 1] \div Pow2(j % LimbBits)) % 2

\* some bit of a below bit j is set
BLowSet(a, j) ==
    \/ \E i \in 1..(j \div LimbBits) : a[i] # 0
    \/ a[(j \div LimbBits) + 1] % Pow2(j % LimbBits) # 0

\* a with the bits below bit j cleared
BTrunc(a, j) ==
    [i \in 1..NLimbs |->
        IF i < (j \div LimbBits) + 1 THEN 0
        ELSE IF i = (j \div LimbBits) + 1
             THEN a[i] - (a[i] % Pow2(j % LimbBits))
        ELSE a[i]]

BPow2(j) == [i \in 1..NLimbs |-> IF i = (j \div LimbBits) + 1 THEN Pow2(j % LimbBits) ELSE 0]

\* a (plus a non-zero remainder below its last bit when sticky) rounded to
\* Mantissa significant bits, to nearest, ties to even
BRound(a, sticky) ==
    LET len == BBits(a)
        cut == len - Mantissa
    IN  IF cut <= 0 THEN a
        ELSE LET half == BBit(a, cut - 1) = 1
                 rest == BLowSet(a, cut - 1) \/ sticky
                 odd  == BBit(a, cut) = 1
                 q    == BTrunc(a, cut)
             IN  IF half /\ (rest \/ odd) THEN BAdd(q, BPow2(cut)) ELSE q

NaN == [k |-> "nan"]
Inf(neg) == [k |-> "inf", neg |-> neg]
Fin(neg, m) == [k |-> "fin", neg |-> (neg /\ m # BZero), m |-> m]
Num(n) == IF n < 0 THEN Fin(TRUE, BFromInt(0 - n)) ELSE Fin(FALSE, BFromInt(n))

\* x + y
FAdd(x, y) ==
    IF x.k = "nan" \/ y.k = "nan" THEN NaN
    ELSE IF x.k = "inf" /\ y.k = "inf" THEN (IF x.neg = y.neg THEN x ELSE NaN)
    ELSE IF x.k = "inf" THEN x
    ELSE IF y.k = "inf" THEN y
    ELSE IF x.neg = y.neg THEN Fin(x.neg, BRound(BAdd(x.m, y.m), FALSE))
    ELSE IF BCmp(x.m, y.m) >= 0 THEN Fin(x.neg, BRound(BSub(x.m, y.m), FALSE))
    ELSE Fin(y.neg, BRound(BSub(y.m, x.m), FALSE))

FNeg(x) == IF x.k = "nan" THEN x ELSE IF x.k = "inf" THEN Inf(~x.neg) ELSE Fin(~x.neg, x.m)

\* x - y
FSub(x, y) == FAdd(x, FNeg(y))

\* x * n for an integer-valued n, 0 <= n < 2^15
FMulInt(x, n) ==
    IF x.k = "nan" THEN NaN
    ELSE IF x.k = "inf" THEN (IF n = 0 THEN NaN ELSE x)
    ELSE Fin(x.neg, BRound(BMulSmall(x.m, n), FALSE))

\* x / n for an integer-valued n, 0 < n < 2^15
FDivInt(x, n) ==
    IF x.k # "fin" THEN x
    ELSE LET d == BDivSmall(x.m, n) IN Fin(x.neg, BRound(d.q, d.r # 0))

Abs(n) == IF n < 0 THEN 0 - n ELSE n

\* a / b for integer-valued a and b
FDivII(a, b) ==
    IF b = 0 THEN (IF a = 0 THEN NaN ELSE Inf(a < 0))
    ELSE LET d == BDivSmall(BFromInt(Abs(a)), Abs(b))
         IN  Fin((a < 0) # (b < 0), BRound(d.q, d.r # 0))

\* x < y, x <= y (false when either is NaN)
FLt(x, y) ==
    IF x.k = "nan" \/ y.k = "nan" THEN FALSE
    ELSE IF x.k = "inf" THEN x.neg /\ ~(y.k = "inf" /\ y.neg)
    ELSE IF y.k = "inf" THEN ~y.neg
    ELSE IF x.neg /\ ~y.neg THEN TRUE
    ELSE IF ~x.neg /\ y.neg THEN FALSE
    ELSE IF x.neg THEN BCmp(x.m, y.m) > 0
    ELSE BCmp(x.m, y.m) < 0

FEq(x, y) == x.k # "nan" /\ y.k # "nan" /\ x = y
FLe(x, y) == FLt(x, y) \/ FEq(x, y)
FGt(x, y) == FLt(y, x)
FGe(x, y) == FLe(y, x)


FMax(x, y) ==
    IF x.k = "nan" \/ y.k = "nan" THEN NaN ELSE IF FLt(x, y) THEN y ELSE x

\* x.toFixed(1): the digits of the integer n nearest to x * 10 (the larger
\* of two nearest), as a count of tenths, with the sign of x
toFixed1(x) ==
    IF x.k = "nan" THEN [k |-> "nan"]
    ELSE IF x.k = "inf" THEN [k |-> "inf", neg |-> x.neg]
    ELSE LET half == [i \in 1..NLimbs |-> IF i = FracLimbs THEN Base \div 2 ELSE 0]
             n    == BAdd(BMulSmall(x.m, 10), half)
         IN  [k |-> "fin", neg |-> x.neg,
              tenths |-> n[FracLimbs + 1] + Base * n[FracLimbs + 2]]

RECURSIVE IndianGroups(_)
IndianGroups(n) == IF n < 100 THEN <<n>> ELSE Append(IndianGroups(n \div 100), n % 100)

\* amount.toLocaleString('en-IN') of an integer-valued amount: the digit
\* groups the separators delimit (last three digits, then groups of two)
toLocaleString(amount) ==
    IF amount.nan THEN [k |-> "nan"]
    ELSE LET n == Abs(amount.v)
         IN  [k |-> "fin", neg |-> amount.v < 0,
              groups |-> IF n < 1000 THEN <<n>>
                         ELSE Append(IndianGroups(n \div 1000), n % 1000)]

(***************************************************************************)
(* Inputs: the data points a host can pass.  An amount is an integer-      *)
(* valued number or NaN.                                                   *)
(***************************************************************************)
Amt(v) == [nan |-> FALSE, v |-> v]
NaNAmt == [nan |-> TRUE, v |-> 0]
Point(name, amount, color) == [name |-> name, amount |-> amount, color |-> color]

Points ==
    { Point("Bricks", Amt(0), "#FF6384"),
      Point("Cement", Amt(1), "#36A2EB"),
      Point("Sand", Amt(2), "#FFCE56"),
      Point("Steel", Amt(3600), "#4BC0C0"),
      Point("Refund", Amt(0 - 1), "#9966FF"),
      Point("Unknown", NaNAmt, "#FF9F40") }

MaxLen == 2
Sizes == {240, 200}

RECURSIVE SeqsUpTo(_, _)
SeqsUpTo(S, n) ==
    IF n = 0 THEN {<<>>}
    ELSE LET shorter == SeqsUpTo(S, n - 1)
         IN  shorter \cup {Append(s, x) : s \in {t \in shorter : Len(t) = n - 1}, x \in S}

Inputs == SeqsUpTo(Points, MaxLen)

\* the worked example: A 100 and B 300
ExamplePoints ==
    { Point("A", Amt(100), "#FF6384"),
      Point("B", Amt(300), "#36A2EB") }

ExampleInputs == SeqsUpTo(ExamplePoints, MaxLen)

Null == <<>>
Some(i) == <<i>>
Selections == {Null} \cup {Some(i) : i \in 0..(MaxLen - 1)}

(***************************************************************************)
(* The component: props data, size and onSlicePress, the state hook        *)
(* selectedIndex, and what one render computes from them.  Indexes are     *)
(* the code's: 0-based.                                                    *)
(***************************************************************************)
VARIABLES data, size, hasOnSlicePress, selectedIndex, pressed, closureIndex, host

vars == <<data, size, hasOnSlicePress, selectedIndex, pressed, closureIndex, host>>

RECURSIVE SumAmounts(_, _)
SumAmounts(d, i) ==
    IF i > Len(d) THEN Amt(0)
    ELSE LET rest == SumAmounts(d, i + 1)
         IN  IF d[i].amount.nan \/ rest.nan THEN NaNAmt
             ELSE Amt(d[i].amount.v + rest.v)

\* mutant: the reduce leaves the first item out
total_SkipFirst(d) == SumAmounts(d, 2)

\* data.reduce((sum, item) => sum + item.amount, 0)
total(d) == SumAmounts(d, 1)

\* mutant: a negative amount is charted as zero
Fraction_ClampsNegative(amount, tot) ==
    IF amount.nan \/ tot.nan THEN NaN
    ELSE FDivII(IF amount.v < 0 THEN 0 ELSE amount.v, tot.v)

\* item.amount / total
Fraction(amount, tot) ==
    IF amount.nan \/ tot.nan THEN NaN ELSE FDivII(amount.v, tot.v)

StartAngle == -90
FullTurn == 360
RingThreshold == FDivII(3599, 10)
HalfTurn == 180
SelectedGrowth == 8
RadiusMargin == 10
MinTouchSize == 60

centerX(sz) == Num(sz \div 2)
centerY(sz) == Num(sz \div 2)
radius(sz) == (sz \div 2) - RadiusMargin
innerRadius(sz) == FMulInt(FDivII(55, 100), radius(sz))

\* a point at distance r from the centre in direction deg (the code takes
\* centerX + r * cos(deg * PI / 180), centerY + r * sin(deg * PI / 180))
Polar(r, deg) == [r |-> r, deg |-> deg]
XY(x, y) == [x |-> x, y |-> y]
MoveTo(to) == [op |-> "M", to |-> to]
LineTo(to) == [op |-> "L", to |-> to]
Arc(r, large, sweep, to) == [op |-> "A", rx |-> r, ry |-> r, rot |-> 0,
                             large |-> large, sweep |-> sweep, to |-> to]
Close == [op |-> "Z"]

\* mutant: the large-arc flag is also set at exactly half a turn
largeArcFlag_FromHalfTurn(startAngle, endAngle) ==
    IF FGe(FSub(endAngle, startAngle), Num(HalfTurn)) THEN 1 ELSE 0

\* endAngle - startAngle > 180 ? 1 : 0
largeArcFlag(startAngle, endAngle) ==
    IF FGt(FSub(endAngle, startAngle), Num(HalfTurn)) THEN 1 ELSE 0

\* the two-semicircle ring of the special case
fullRing(sz, currentRadius) ==
    LET inner == innerRadius(sz)
    IN  << MoveTo(XY(centerX(sz), FSub(centerY(sz), currentRadius))),
           Arc(currentRadius, 1, 1, XY(centerX(sz), FAdd(centerY(sz), currentRadius))),
           Arc(currentRadius, 1, 1, XY(centerX(sz), FSub(centerY(sz), currentRadius))),
           MoveTo(XY(centerX(sz), FSub(centerY(sz), inner))),
           Arc(inner, 1, 0, XY(centerX(sz), FAdd(centerY(sz), inner))),
           Arc(inner, 1, 0, XY(centerX(sz), FSub(centerY(sz), inner))),
           Close >>

\* the single-arc wedge
wedge(sz, startAngle, endAngle, currentRadius) ==
    LET inner == innerRadius(sz)
        flag  == largeArcFlag(startAngle, endAngle)
    IN  << MoveTo(Polar(currentRadius, startAngle)),
           Arc(currentRadius, flag, 1, Polar(currentRadius, endAngle)),
           LineTo(Polar(inner, endAngle)),
           Arc(inner, flag, 0, Polar(inner, startAngle)),
           Close >>

\* mutant: no special case for the complete circle
createPieSlice_WedgeOnly(sz, startAngle, endAngle, color, isSelected) ==
    wedge(sz, startAngle, endAngle,
          Num(IF isSelected THEN radius(sz) + SelectedGrowth ELSE radius(sz)))

\* mutant: the complete circle is drawn from a span of 359 degrees on
createPieSlice_RingFrom359(sz, startAngle, endAngle, color, isSelected) ==
    LET currentRadius == Num(IF isSelected THEN radius(sz) + SelectedGrowth ELSE radius(sz))
    IN  IF FGe(FSub(endAngle, startAngle), Num(359))
        THEN fullRing(sz, currentRadius)
        ELSE wedge(sz, startAngle, endAngle, currentRadius)

\* mutant: the selected slice is drawn with the radius of the others
createPieSlice_NoGrowth(sz, startAngle, endAngle, color, isSelected) ==
    LET currentRadius == Num(radius(sz))
    IN  IF FGe(FSub(endAngle, startAngle), RingThreshold)
        THEN fullRing(sz, currentRadius)
        ELSE wedge(sz, startAngle, endAngle, currentRadius)

createPieSlice(sz, startAngle, endAngle, color, isSelected) ==
    LET currentRadius == Num(IF isSelected THEN radius(sz) + SelectedGrowth ELSE radius(sz))
        angleDiff     == FSub(endAngle, startAngle)
    IN  IF FGe(angleDiff, RingThreshold)
        THEN fullRing(sz, currentRadius)
        ELSE wedge(sz, startAngle, endAngle, currentRadius)

getSliceTouchArea(sz, startAngle, endAngle) ==
    LET midAngle    == FDivInt(FAdd(startAngle, endAngle), 2)
        touchRadius == FDivInt(FAdd(Num(radius(sz)), innerRadius(sz)), 2)
    IN  Polar(touchRadius, midAngle)

RECURSIVE Slices(_, _, _, _, _)
Slices(d, sz, sel, i, angleNow) ==
    IF i > Len(d) THEN <<>>
    ELSE LET item       == d[i]
             percentage == Fraction(item.amount, total(d))
             angle      == FMulInt(percentage, FullTurn)
             startAngle == angleNow
             endAngle   == FAdd(angleNow, angle)
             isSelected == sel = Some(i - 1)
         IN  << [ item       |-> item,
                  index      |-> i - 1,
                  pathData   |-> createPieSlice(sz, startAngle, endAngle, item.color, isSelected),
                  isSelected |-> isSelected,
                  startAngle |-> startAngle,
                  endAngle   |-> endAngle,
                  touchArea  |-> getSliceTouchArea(sz, startAngle, endAngle) ] >>
             \o Slices(d, sz, sel, i + 1, endAngle)

\* mutant: currentAngle is not advanced to endAngle after a slice
RECURSIVE SlicesNoAdvance(_, _, _, _, _)
SlicesNoAdvance(d, sz, sel, i, angleNow) ==
    IF i > Len(d) THEN <<>>
    ELSE LET endAngle == FAdd(angleNow, FMulInt(Fraction(d[i].amount, total(d)), FullTurn))
         IN  << [ item       |-> d[i],
                  index      |-> i - 1,
                  pathData   |-> createPieSlice(sz, angleNow, endAngle, d[i].color, sel = Some(i - 1)),
                  isSelected |-> sel = Some(i - 1),
                  startAngle |-> angleNow,
                  endAngle   |-> endAngle,
                  touchArea  |-> getSliceTouchArea(sz, angleNow, endAngle) ] >>
             \o SlicesNoAdvance(d, sz, sel, i + 1, angleNow)

slicesData_NoAdvance(d, sz, sel) == SlicesNoAdvance(d, sz, sel, 1, Num(StartAngle))

\* mutant: isSelected compares the selection with the 1-based position
slicesData_SelectedByPosition(d, sz, sel) ==
    Slices(d, sz, IF sel = Null THEN Null ELSE Some(sel[1] - 1), 1, Num(StartAngle))

\* mutant: points with a zero amount are filtered out before the walk
slicesData_DropZero(d, sz, sel) ==
    Slices(SelectSeq(d, LAMBDA p : p.amount.nan \/ p.amount.v # 0), sz, sel, 1, Num(StartAngle))

\* mutant: the walk starts 8 degrees further round while a slice is selected
slicesData_TurnsWhenSelected(d, sz, sel) ==
    Slices(d, sz, sel, 1, Num(IF sel = Null THEN StartAngle ELSE StartAngle + SelectedGrowth))

slicesData(d, sz, sel) == Slices(d, sz, sel, 1, Num(StartAngle))

\* mutant: no slice is dimmed
paths_AlwaysOpaque(sl, sel) ==
    [i \in 1..Len(sl) |->
        [ key         |-> sl[i].index,
          d           |-> sl[i].pathData,
          fill        |-> sl[i].item.color,
          stroke      |-> "#fff",
          strokeWidth |-> 2,
          opacity     |-> 10,
          onPress     |-> [item |-> sl[i].item, index |-> sl[i].index] ]]

\* the <Path> elements drawn from the slices: opacity in tenths (1 is 10,
\* 0.6 is 6)
paths(sl, sel) ==
    [i \in 1..Len(sl) |->
        [ key         |-> sl[i].index,
          d           |-> sl[i].pathData,
          fill        |-> sl[i].item.color,
          stroke      |-> "#fff",
          strokeWidth |-> 2,
          opacity     |-> IF sel = Null \/ sl[i].isSelected THEN 10 ELSE 6,
          onPress     |-> [item |-> sl[i].item, index |-> sl[i].index] ]]

\* mutant: the overlay of the selected slice is centred between the inner
\* radius and the enlarged outer radius
touchOverlays_FollowsDrawnRadius(sl, sz) ==
    [i \in 1..Len(sl) |->
        LET angleSpan == FSub(sl[i].endAngle, sl[i].startAngle)
            touchSize == FMax(Num(MinTouchSize), FMulInt(FDivInt(angleSpan, FullTurn), sz))
            drawn     == Num(IF sl[i].isSelected THEN radius(sz) + SelectedGrowth ELSE radius(sz))
        IN  [ key     |-> sl[i].index,
              onPress |-> [item |-> sl[i].item, index |-> sl[i].index],
              center  |-> Polar(FDivInt(FAdd(drawn, innerRadius(sz)), 2), sl[i].touchArea.deg),
              width   |-> touchSize,
              height  |-> touchSize ]]

\* the invisible <Pressable> overlays, each a square of side touchSize
\* centred on the slice's touch area
touchOverlays(sl, sz) ==
    [i \in 1..Len(sl) |->
        LET angleSpan == FSub(sl[i].endAngle, sl[i].startAngle)
            touchSize == FMax(Num(MinTouchSize), FMulInt(FDivInt(angleSpan, FullTurn), sz))
        IN  [ key     |-> sl[i].index,
              onPress |-> [item |-> sl[i].item, index |-> sl[i].index],
              center  |-> sl[i].touchArea,
              width   |-> touchSize,
              height  |-> touchSize ]]

\* mutant: the item is read one position after the selected index
selectedItem_NextItem(d, sel) ==
    IF sel # Null /\ sel[1] + 2 \in 1..Len(d) THEN <<d[sel[1] + 2]>> ELSE <<>>

\* selectedIndex !== null ? data[selectedIndex] : null  (an index outside
\* the array reads undefined)
selectedItem(d, sel) ==
    IF sel # Null /\ sel[1] + 1 \in 1..Len(d) THEN <<d[sel[1] + 1]>> ELSE <<>>

\* mutant: the share of the total is shown as it is, not as a percentage
percentageOf_Share(amount, tot) == Fraction(amount, tot)

\* (amount / total) * 100
percentageOf(amount, tot) == FMulInt(Fraction(amount, tot), 100)

centerLabel(d, sel) ==
    LET chosen == selectedItem(d, sel)
    IN  IF chosen # <<>>
        THEN [ mode       |-> "detail",
               name       |-> chosen[1].name,
               amount     |-> toLocaleString(chosen[1].amount),
               percentage |-> toFixed1(percentageOf(chosen[1].amount, total(d))) ]
        ELSE [ mode |-> "aggregate", label |-> "Total", value |-> "Expenses" ]

(***************************************************************************)
(* Operations.  pressed holds the onSlicePress calls the last step made,   *)
(* each with the setSelectedIndex calls its handler made before it.        *)
(* closureIndex is the selectedIndex of the last render, the value the     *)
(* handlers created by that render read.  host is the reporting screen     *)
(* around the chart: the stored transactions and the selected month and    *)
(* project; the operations of the chart leave it alone.                    *)
(***************************************************************************)
\* a screen that has nothing stored
NoHost == [transactions |-> <<>>, selectedMonth |-> "2024-01", selectedProject |-> "all"]

Init ==
    /\ data \in Inputs
    /\ size \in Sizes
    /\ hasOnSlicePress \in BOOLEAN
    /\ selectedIndex = Null
    /\ pressed = <<>>
    /\ closureIndex = Null
    /\ host = NoHost

\* mutant: a press always selects, also on the slice that is selected
toggle_NeverDeselects(current, index) == Some(index)

\* mutant: a press while another slice is selected only clears the selection
toggle_ClearsFirst(current, index) == IF current # Null THEN Null ELSE Some(index)

\* selectedIndex === index ? null : index
toggle(current, index) == IF current = Some(index) THEN Null ELSE Some(index)

\* mutant: the callback is invoked before setSelectedIndex is called
handleSlicePress_CallbackFirst(item, index) ==
    /\ pressed' = IF hasOnSlicePress
                  THEN <<[item |-> item, index |-> index, issued |-> <<>>]>>
                  ELSE <<>>
    /\ selectedIndex' = toggle(closureIndex, index)
    /\ UNCHANGED <<data, size, hasOnSlicePress, host>>

\* setSelectedIndex(...) and then onSlicePress?.(item, index): the call is
\* recorded with the selection updates issued before it
handleSlicePress(item, index) ==
    /\ selectedIndex' = toggle(closureIndex, index)
    /\ pressed' = IF hasOnSlicePress
                  THEN <<[item |-> item, index |-> index,
                          issued |-> <<toggle(closureIndex, index)>>]>>
                  ELSE <<>>
    /\ UNCHANGED <<data, size, hasOnSlicePress, host>>

\* a press on the path or on the overlay of slice i, and the re-render that
\* the state update brings about
Tap(i) ==
    /\ i + 1 \in 1..Len(data)
    /\ handleSlicePress(data[i + 1], i)
    /\ closureIndex' = selectedIndex'

\* a press handled while the re-render of an earlier update is still to come
Press(i) ==
    /\ i + 1 \in 1..Len(data)
    /\ handleSlicePress(data[i + 1], i)
    /\ UNCHANGED closureIndex

\* the re-render after a state update: the new handlers see the new state
Render ==
    /\ closureIndex # selectedIndex
    /\ closureIndex' = selectedIndex
    /\ pressed' = <<>>
    /\ UNCHANGED <<data, size, hasOnSlicePress, selectedIndex, host>>

\* the host renders the chart with other data: a point more, or one less
AddPoint(p) ==
    /\ Len(data) < MaxLen
    /\ data' = Append(data, p)
    /\ pressed' = <<>>
    /\ closureIndex' = selectedIndex
    /\ UNCHANGED <<size, hasOnSlicePress, selectedIndex, host>>

\* mutant: the selection is cleared when a point is taken away
RemovePoint_ClearsSelection(i) ==
    /\ i \in 1..Len(data)
    /\ data' = [k \in 1..(Len(data) - 1) |-> IF k < i THEN data[k] ELSE data[k + 1]]
    /\ pressed' = <<>>
    /\ selectedIndex' = Null
    /\ closureIndex' = Null
    /\ UNCHANGED <<size, hasOnSlicePress, host>>

RemovePoint(i) ==
    /\ i \in 1..Len(data)
    /\ data' = [k \in 1..(Len(data) - 1) |-> IF k < i THEN data[k] ELSE data[k + 1]]
    /\ pressed' = <<>>
    /\ closureIndex' = selectedIndex
    /\ UNCHANGED <<size, hasOnSlicePress, selectedIndex, host>>

Resize(sz) ==
    /\ sz # size
    /\ size' = sz
    /\ pressed' = <<>>
    /\ closureIndex' = selectedIndex
    /\ UNCHANGED <<data, hasOnSlicePress, selectedIndex, host>>

\* the host unmounts the chart and mounts it again: useState(null)
Remount ==
    /\ selectedIndex' = Null
    /\ pressed' = <<>>
    /\ closureIndex' = Null
    /\ UNCHANGED <<data, size, hasOnSlicePress, host>>

Next ==
    \/ \E i \in 0..(MaxLen - 1) : Tap(i)
    \/ \E p \in Points : AddPoint(p)
    \/ \E i \in 1..MaxLen : RemovePoint(i)
    \/ \E sz \in Sizes : Resize(sz)
    \/ Remount

Spec == Init /\ [][Next]_vars

\* the same component charting the points of the worked example
InitExample ==
    /\ data \in ExampleInputs
    /\ size \in Sizes
    /\ hasOnSlicePress \in BOOLEAN
    /\ selectedIndex = Null
    /\ pressed = <<>>
    /\ closureIndex = Null
    /\ host = NoHost

NextExample ==
    \/ \E i \in 0..(MaxLen - 1) : Tap(i)
    \/ \E p \in ExamplePoints : AddPoint(p)
    \/ \E i \in 1..MaxLen : RemovePoint(i)
    \/ \E sz \in Sizes : Resize(sz)
    \/ Remount

SpecExample == InitExample /\ [][NextExample]_vars

\* the same component when a press may be handled before the re-render of
\* the update of the press before it
NextDeferred ==
    \/ \E i \in 0..(MaxLen - 1) : Press(i)
    \/ Render
    \/ \E p \in Points : AddPoint(p)
    \/ \E i \in 1..MaxLen : RemovePoint(i)
    \/ \E sz \in Sizes : Resize(sz)
    \/ Remount

SpecDeferred == Init /\ [][NextDeferred]_vars

(***************************************************************************)
(* The reporting screen: it charts the 'out' transactions of the selected  *)
(* month and project by material, and mounts the chart only when there is  *)
(* something to chart.                                                     *)
(***************************************************************************)
Months == {"2024-01", "2024-02"}
ProjectChoices == {"all", "Villa", "Tower"}
TxAmounts == {1, 2}

\* what can be stored: every amount is positive
TxKinds ==
    [type : {"in", "out"}, material : {"Cement", "Sand"}, amount : TxAmounts,
     month : Months, project : {"Villa"}]

MaxTx == 2

CHART_COLORS ==
    << "#FF6384", "#36A2EB", "#FFCE56", "#4BC0C0", "#9966FF",
       "#FF9F40", "#E74C3C", "#C9CBCF", "#2ECC71", "#3498DB" >>

\* transactions.filter(matchesMonth && matchesProject)
getFilteredTransactions(h) ==
    SelectSeq(h.transactions,
              LAMBDA t : /\ t.month = h.selectedMonth
                         /\ (h.selectedProject = "all" \/ t.project = h.selectedProject))

\* an object as the list of its entries in insertion order:
\* obj[key] = (obj[key] || 0) + add
AddToEntry(entries, key, add) ==
    IF \E k \in 1..Len(entries) : entries[k].key = key
    THEN [k \in 1..Len(entries) |->
             IF entries[k].key = key
             THEN [key |-> key, value |-> entries[k].value + add]
             ELSE entries[k]]
    ELSE Append(entries, [key |-> key, value |-> add])

RECURSIVE SumByMaterial(_, _, _)
SumByMaterial(ts, i, expenses) ==
    IF i > Len(ts) THEN expenses
    ELSE SumByMaterial(ts, i + 1, AddToEntry(expenses, ts[i].material, ts[i].amount))

\* mutant: the receipts are charted with the expenses
getExpensesByMaterial_AllTypes(h) ==
    SumByMaterial(getFilteredTransactions(h), 1, <<>>)

getExpensesByMaterial(h) ==
    SumByMaterial(SelectSeq(getFilteredTransactions(h), LAMBDA t : t.type = "out"), 1, <<>>)

pieChartData(h) ==
    LET expensesByMaterial == getExpensesByMaterial(h)
    IN  [i \in 1..Len(expensesByMaterial) |->
            Point(expensesByMaterial[i].key, Amt(expensesByMaterial[i].value),
                  CHART_COLORS[((i - 1) % Len(CHART_COLORS)) + 1])]

\* pieChartData.length > 0 && <CustomPieChart data={pieChartData} .../>
chartMounted(h) == Len(pieChartData(h)) > 0

(***************************************************************************)
(* ChartService.generatePieChartData                                       *)
(***************************************************************************)
ChartTypes == {"in", "out", "both"}

\* groupByMaterial and the reduce over each group: the total of every
\* material in the order in which the materials first occur
RECURSIVE TotalsByMaterial(_, _, _, _)
TotalsByMaterial(ts, i, type, materialTotals) ==
    IF i > Len(ts) THEN materialTotals
    ELSE LET signed == IF type = "both" /\ ts[i].type # "in"
                       THEN 0 - ts[i].amount ELSE ts[i].amount
         IN  TotalsByMaterial(ts, i + 1, type,
                              AddToEntry(materialTotals, ts[i].material, signed))

RECURSIVE SumAbs(_, _)
SumAbs(materialTotals, i) ==
    IF i > Len(materialTotals) THEN 0
    ELSE Abs(materialTotals[i].value) + SumAbs(materialTotals, i + 1)

\* (Math.abs(amount) / total) * 100 for the totals that can occur, computed
\* once
MaxTotal == MaxTx * (CHOOSE a \in TxAmounts : \A b \in TxAmounts : b <= a)
chartPercentages ==
    [a \in 0..MaxTotal |-> [t \in 1..MaxTotal |-> FMulInt(FDivII(a, t), 100)]]

\* mutant: the items are left in the order of the materials
SortByAmountDesc_Unsorted(items) == items

\* .sort((a, b) => b.amount - a.amount): stable, largest amount first
RECURSIVE SortByAmountDesc(_)
SortByAmountDesc(items) ==
    IF Len(items) <= 1 THEN items
    ELSE LET front  == SortByAmountDesc(SubSeq(items, 1, Len(items) - 1))
             last   == items[Len(items)]
             before == {k \in 0..Len(front) : \A j \in 1..k : front[j].amount >= last.amount}
             at     == CHOOSE k \in before : \A j \in before : j <= k
         IN  SubSeq(front, 1, at) \o <<last>> \o SubSeq(front, at + 1, Len(front))

generatePieChartData(transactions, type) ==
    LET filteredTransactions ==
            IF type # "both" THEN SelectSeq(transactions, LAMBDA t : t.type = type)
            ELSE transactions
        materialTotals == TotalsByMaterial(filteredTransactions, 1, type, <<>>)
        sum == SumAbs(materialTotals, 1)
    IN  IF sum = 0 THEN <<>>
        ELSE SortByAmountDesc(
                 [i \in 1..Len(materialTotals) |->
                     [ name       |-> materialTotals[i].key,
                       amount     |-> Abs(materialTotals[i].value),
                       percentage |-> chartPercentages[Abs(materialTotals[i].value)][sum],
                       color      |-> CHART_COLORS[((i - 1) % Len(CHART_COLORS)) + 1] ]])

\* the screen renders with h: a chart that stays mounted keeps its state, a
\* chart that is mounted anew starts from useState(null)
ScreenRenders(h) ==
    /\ host' = h
    /\ data' = pieChartData(h)
    /\ pressed' = <<>>
    /\ selectedIndex' = IF chartMounted(host) /\ chartMounted(h) THEN selectedIndex ELSE Null
    /\ closureIndex' = selectedIndex'
    /\ UNCHANGED <<size, hasOnSlicePress>>

AddTransaction(t) ==
    /\ Len(host.transactions) < MaxTx
    /\ ScreenRenders([host EXCEPT !.transactions = Append(@, t)])

SelectMonth(m) ==
    /\ m # host.selectedMonth
    /\ ScreenRenders([host EXCEPT !.selectedMonth = m])

SelectProject(p) ==
    /\ p # host.selectedProject
    /\ ScreenRenders([host EXCEPT !.selectedProject = p])

\* the width of the window, and Math.min(width - 96, 240)
Widths == {360}
chartSize(width) == IF width - 96 < 240 THEN width - 96 ELSE 240

\* the screen opens with nothing stored; it passes the chart no onSlicePress
InitHost ==
    /\ host = NoHost
    /\ data = pieChartData(host)
    /\ size \in {chartSize(width) : width \in Widths}
    /\ hasOnSlicePress = FALSE
    /\ selectedIndex = Null
    /\ pressed = <<>>
    /\ closureIndex = Null

NextHost ==
    \/ \E t \in TxKinds : AddTransaction(t)
    \/ \E m \in Months : SelectMonth(m)
    \/ \E p \in ProjectChoices : SelectProject(p)
    \/ \E i \in 0..(MaxLen - 1) : Tap(i)

SpecHost == InitHost /\ [][NextHost]_vars

(***************************************************************************)
(* What the claims speak of.                                               *)
(***************************************************************************)
\* every render of the inputs of this model, computed once
renders ==
    [d \in Inputs \cup ExampleInputs |-> [sz \in Sizes |-> [sel \in Selections |->
        slicesData(d, sz, sel)]]]

\* the overlays of every render, computed once
overlays ==
    [d \in Inputs \cup ExampleInputs |-> [sz \in Sizes |-> [sel \in Selections |->
        touchOverlays(renders[d][sz][sel], sz)]]]

Rendered == renders[data][size][selectedIndex]
RenderedPaths == paths(Rendered, selectedIndex)
RenderedOverlays == overlays[data][size][selectedIndex]
Span(slice) == FSub(slice.endAngle, slice.startAngle)

NonNegative(d) == \A i \in 1..Len(d) : ~d[i].amount.nan /\ d[i].amount.v >= 0
TotalPositive(d) == ~total(d).nan /\ total(d).v > 0
TotalNotPositive(d) == ~total(d).nan /\ total(d).v <= 0

\* x + y of finite numbers, exactly (no rounding)
ExactAdd(x, y) ==
    IF x.neg = y.neg THEN Fin(x.neg, BAdd(x.m, y.m))
    ELSE IF BCmp(x.m, y.m) >= 0 THEN Fin(x.neg, BSub(x.m, y.m))
    ELSE Fin(y.neg, BSub(y.m, x.m))

\* |x - y| <= 10^-6, exactly
WithinMillionth(x, y) ==
    /\ x.k = "fin"
    /\ y.k = "fin"
    /\ BCmp(BMulSmall(BMulSmall(ExactAdd(x, FNeg(y)).m, 1000), 1000), BFromInt(1)) <= 0

RECURSIVE SumSpans(_, _)
SumSpans(sl, i) ==
    IF i > Len(sl) THEN Num(0) ELSE ExactAdd(Span(sl[i]), SumSpans(sl, i + 1))

AllFinite(sl) == \A i \in 1..Len(sl) : sl[i].startAngle.k = "fin" /\ sl[i].endAngle.k = "fin"

\* C1 as stated: for a non-empty input of non-negative amounts with
\* total > 0 the spans sum to exactly 360 and the last endAngle is exactly 270
C1_SpansSumExactly360 ==
    (Len(data) > 0 /\ NonNegative(data) /\ TotalPositive(data)) =>
        /\ AllFinite(Rendered)
        /\ SumSpans(Rendered, 1) = Num(360)
        /\ Rendered[Len(Rendered)].endAngle = Num(270)

\* C1 amended: for a non-empty input of non-negative amounts with total > 0
\* the spans sum to 360 within 1e-6, and the last endAngle is within 1e-6 of 270
C1_SpansSumTo360Within1e6 ==
    (Len(data) > 0 /\ NonNegative(data) /\ TotalPositive(data)) =>
        /\ AllFinite(Rendered)
        /\ WithinMillionth(SumSpans(Rendered, 1), Num(360))
        /\ WithinMillionth(Rendered[Len(Rendered)].endAngle, Num(270))

\* two positive amounts whose computed angles do not end on 270 exactly
C1_Witness ==
    /\ Len(data) = 2
    /\ \A i \in 1..2 : ~data[i].amount.nan /\ data[i].amount.v > 0
    /\ Rendered[2].endAngle # Num(270)
    /\ WithinMillionth(Rendered[2].endAngle, Num(270))

\* C2 as stated: when total <= 0 (empty input, or every amount zero) there is
\* no segment, no path and no hit region
C2_NoSegmentsWhenTotalNotPositive ==
    TotalNotPositive(data) =>
        /\ Rendered = <<>>
        /\ RenderedPaths = <<>>
        /\ RenderedOverlays = <<>>

\* C3: the first segment starts at -90 and every later segment starts where
\* the one before it ends
C3_Contiguous ==
    LET sl == Rendered
    IN  /\ Len(sl) > 0 => sl[1].startAngle = Num(-90)
        /\ \A i \in 2..Len(sl) : sl[i].startAngle = sl[i - 1].endAngle

\* two segments of positive width laid end to end
C3_Witness ==
    /\ Len(data) = 2
    /\ NonNegative(data) /\ TotalPositive(data)
    /\ FLt(Rendered[1].startAngle, Rendered[1].endAngle)
    /\ Rendered[2].startAngle = Rendered[1].endAngle
    /\ FLt(Rendered[2].startAngle, Rendered[2].endAngle)

\* C4: a tap on slice i sets the selection to none when it was i, and to i
\* when it was none or another index
C4_ToggleRule ==
    [][\A i \in 0..(MaxLen - 1) :
          Tap(i) => /\ selectedIndex = Some(i) => selectedIndex' = Null
                    /\ selectedIndex = Null => selectedIndex' = Some(i)
                    /\ (selectedIndex # Null /\ selectedIndex # Some(i)) => selectedIndex' = Some(i)]_vars

\* a tap on the selected slice has just deselected it
C4_Witness ==
    /\ selectedIndex = Null
    /\ pressed # <<>>
    /\ pressed[1].index \in 0..(Len(data) - 1)

SelectedSlices == {i \in 1..Len(Rendered) : Rendered[i].isSelected}
InRange(sel, d) == sel # Null /\ sel[1] \in 0..(Len(d) - 1)

\* C5: at most one slice is selected; exactly one when the selection is an
\* index of the data, none when the selection is none
C5_AtMostOneSelected ==
    /\ Cardinality(SelectedSlices) <= 1
    /\ InRange(selectedIndex, data) => SelectedSlices = {selectedIndex[1] + 1}
    /\ selectedIndex = Null => SelectedSlices = {}

\* the second of two slices is the selected one
C5_Witness ==
    /\ Len(data) = 2
    /\ selectedIndex = Some(1)
    /\ SelectedSlices = {2}

\* C6: the selection starts as none; a tap on i leads from none to i, from i
\* to none and from j # i to i; in every state a tap on every slice is
\* enabled and changes the selection
C6_SelectionStateMachine ==
    /\ selectedIndex = Null
    /\ [][\A i \in 0..(MaxLen - 1) :
            Tap(i) => /\ selectedIndex' # selectedIndex
                      /\ selectedIndex' = IF selectedIndex = Some(i) THEN Null ELSE Some(i)]_vars
    /\ [](\A i \in 0..(Len(data) - 1) : ENABLED (Tap(i) /\ selectedIndex' # selectedIndex))

\* slice 0 is selected by a tap while two slices are shown
C6_Witness ==
    /\ Len(data) = 2
    /\ selectedIndex = Some(0)
    /\ hasOnSlicePress
    /\ pressed = <<[item |-> data[1], index |-> 0, issued |-> <<Some(0)>>]>>

IsFullRing(path, sz, r) ==
    LET cx    == Num(sz \div 2)
        inner == innerRadius(sz)
    IN  /\ Len(path) = 7
        /\ path[1] = [op |-> "M", to |-> XY(cx, Num((sz \div 2) - r))]
        /\ path[2] = [op |-> "A", rx |-> Num(r), ry |-> Num(r), rot |-> 0, large |-> 1,
                      sweep |-> 1, to |-> XY(cx, Num((sz \div 2) + r))]
        /\ path[3] = [op |-> "A", rx |-> Num(r), ry |-> Num(r), rot |-> 0, large |-> 1,
                      sweep |-> 1, to |-> XY(cx, Num((sz \div 2) - r))]
        /\ path[4] = [op |-> "M", to |-> XY(cx, FSub(cx, inner))]
        /\ path[5] = [op |-> "A", rx |-> inner, ry |-> inner, rot |-> 0, large |-> 1,
                      sweep |-> 0, to |-> XY(cx, FAdd(cx, inner))]
        /\ path[6] = [op |-> "A", rx |-> inner, ry |-> inner, rot |-> 0, large |-> 1,
                      sweep |-> 0, to |-> XY(cx, FSub(cx, inner))]
        /\ path[7] = [op |-> "Z"]

OuterRadius(slice) == IF slice.isSelected THEN (size \div 2) - 10 + 8 ELSE (size \div 2) - 10

OnlyNonZero(d, i) ==
    /\ \A k \in 1..Len(d) : ~d[k].amount.nan
    /\ d[i].amount.v # 0
    /\ \A k \in 1..Len(d) : k # i => d[k].amount.v = 0

\* C8: a slice whose span is >= 359.9 is drawn as the full ring, never as a
\* wedge; so is the slice of the only non-zero amount of an input
C8_FullRingFrom359_9 ==
    \A i \in 1..Len(Rendered) :
        (FGe(Span(Rendered[i]), RingThreshold) \/ OnlyNonZero(data, i))
            => IsFullRing(Rendered[i].pathData, size, OuterRadius(Rendered[i]))

\* one positive amount after a zero amount: its slice spans the whole turn
C8_Witness ==
    /\ Len(data) = 2
    /\ OnlyNonZero(data, 2)
    /\ data[2].amount.v > 0
    /\ Span(Rendered[2]) = Num(360)
    /\ Rendered[2].pathData[1].op = "M"
    /\ Len(Rendered[2].pathData) = 7

\* C9: a slice whose span is < 359.9 is drawn as move to outer-start, outer
\* arc to outer-end (sweep 1, large-arc 1 iff span > 180), line to inner-end,
\* inner arc to inner-start (sweep 0, same large-arc flag), close
C9_WedgePath ==
    \A i \in 1..Len(Rendered) :
        LET s     == Rendered[i]
            r     == Num(OuterRadius(s))
            inner == innerRadius(size)
            flag  == IF FGt(Span(s), Num(180)) THEN 1 ELSE 0
        IN  FLt(Span(s), RingThreshold) =>
                s.pathData =
                    << [op |-> "M", to |-> Polar(r, s.startAngle)],
                       [op |-> "A", rx |-> r, ry |-> r, rot |-> 0, large |-> flag,
                        sweep |-> 1, to |-> Polar(r, s.endAngle)],
                       [op |-> "L", to |-> Polar(inner, s.endAngle)],
                       [op |-> "A", rx |-> inner, ry |-> inner, rot |-> 0, large |-> flag,
                        sweep |-> 0, to |-> Polar(inner, s.startAngle)],
                       [op |-> "Z"] >>

\* a slice of exactly 180 degrees, drawn as a wedge with large-arc flag 0
C9_Witness ==
    /\ Len(data) = 2
    /\ Span(Rendered[1]) = Num(180)
    /\ Rendered[1].pathData[2].large = 0

\* a wedge of more than 180 degrees, drawn with the large-arc flag
C9_WitnessLarge ==
    /\ Len(data) = 2
    /\ FGt(Span(Rendered[2]), Num(180))
    /\ FLt(Span(Rendered[2]), RingThreshold)
    /\ Rendered[2].pathData[2].large = 1

RECURSIVE PairsValue(_)
PairsValue(g) == IF Len(g) = 0 THEN 0 ELSE PairsValue(SubSeq(g, 1, Len(g) - 1)) * 100 + g[Len(g)]

\* the number an en-IN grouped string reads as
GroupsValue(t) ==
    LET g == t.groups
        n == PairsValue(SubSeq(g, 1, Len(g) - 1)) * 1000 + g[Len(g)]
    IN  IF t.neg THEN 0 - n ELSE n

Label == centerLabel(data, selectedIndex)

\* the tenths n shown are those nearest to 1000 * a / t
NearestTenths(n, a, t) == 2 * Abs(n * Abs(t) - 1000 * Abs(a)) <= Abs(t)

\* C10: with no selection the centre label is the fixed caption, whatever the
\* data; with a selected index i of the data it shows the name of point i,
\* its amount and amount_i / total * 100 (to one decimal) as the percentage
C10_CenterLabel ==
    /\ selectedIndex = Null => Label = [mode |-> "aggregate", label |-> "Total", value |-> "Expenses"]
    /\ InRange(selectedIndex, data) =>
          LET p == data[selectedIndex[1] + 1]
              t == total(data)
          IN  /\ Label.mode = "detail"
              /\ Label.name = p.name
              /\ ~p.amount.nan => (Label.amount.k = "fin" /\ GroupsValue(Label.amount) = p.amount.v)
              /\ p.amount.nan => Label.amount.k = "nan"
              /\ (~p.amount.nan /\ ~t.nan /\ t.v # 0) =>
                    /\ Label.percentage.k = "fin"
                    /\ NearestTenths(Label.percentage.tenths, p.amount.v, t.v)
                    /\ Label.percentage.neg = (p.amount.v # 0 /\ (p.amount.v < 0) # (t.v < 0))
              /\ (p.amount.nan \/ t.nan \/ t.v = 0) => Label.percentage.k # "fin"

\* the second of two positive points is selected and the label shows it
C10_Witness ==
    /\ Len(data) = 2
    /\ selectedIndex = Some(1)
    /\ NonNegative(data)
    /\ data[1].amount.v > 0
    /\ data[2].amount.v > 0
    /\ data[1].name # data[2].name
    /\ Label.mode = "detail"
    /\ Label.name = data[2].name
    /\ Label.percentage.tenths \in 1..999


(***************************************************************************)
(* C11..C20                                                                *)
(***************************************************************************)
\* the percentage of every point of d, as the label would show it
Percentages(d) == [i \in 1..Len(d) |-> percentageOf(d[i].amount, total(d))]

RECURSIVE SumExact(_, _)
SumExact(xs, i) ==
    IF i > Len(xs) THEN Num(0) ELSE ExactAdd(xs[i], SumExact(xs, i + 1))

\* |x - 100 * a / t| <= 10^-6 for integers a and t > 0, exactly
\* (as |x * t - 100 * a| * 10^6 <= t)
WithinMillionthOfPercent(x, a, t) ==
    /\ x.k = "fin"
    /\ LET scaled == Fin(x.neg, BMulSmall(x.m, t))
           diff   == ExactAdd(scaled, FNeg(Num(100 * a)))
       IN  BCmp(BMulSmall(BMulSmall(diff.m, 1000), 1000), BFromInt(t)) <= 0

\* C11 as stated: with total > 0 the percentages of all the segments sum to
\* exactly 100
C11_PercentagesSumExactly100 ==
    (Len(data) > 0 /\ TotalPositive(data)) =>
        /\ \A i \in 1..Len(data) : Percentages(data)[i].k = "fin"
        /\ SumExact(Percentages(data), 1) = Num(100)

\* C11 amended: with total > 0 every segment's percentage is amount / total
\* * 100 within 1e-6, and the percentages sum to 100 within 1e-6
C11_PercentagesSumTo100Within1e6 ==
    (Len(data) > 0 /\ TotalPositive(data)) =>
        /\ \A i \in 1..Len(data) :
              WithinMillionthOfPercent(Percentages(data)[i], data[i].amount.v, total(data).v)
        /\ WithinMillionth(SumExact(Percentages(data), 1), Num(100))

\* two positive amounts whose percentages miss 100 by a rounding error
C11_Witness ==
    /\ Len(data) = 2
    /\ \A i \in 1..2 : ~data[i].amount.nan /\ data[i].amount.v > 0
    /\ SumExact(Percentages(data), 1) # Num(100)
    /\ WithinMillionth(SumExact(Percentages(data), 1), Num(100))


\* C12 as stated: there is one hit region per segment, and every hit region
\* is a square of side max(60, (span / 360) * size), which is at least 60
C12_HitRegionPerSegmentAtLeast60 ==
    /\ Len(RenderedOverlays) = Len(Rendered)
    /\ \A i \in 1..Len(Rendered) :
          LET o == RenderedOverlays[i]
          IN  /\ o.key = Rendered[i].index
              /\ o.width = FMax(Num(60), FMulInt(FDivInt(Span(Rendered[i]), 360), size))
              /\ o.height = o.width
              /\ FGe(o.width, Num(60))


\* d with every NaN amount replaced by 0
Zeroed(d) == [i \in 1..Len(d) |-> IF d[i].amount.nan THEN [d[i] EXCEPT !.amount = Amt(0)] ELSE d[i]]
HasNaN(d) == \E i \in 1..Len(d) : d[i].amount.nan

\* C13 as stated: a NaN amount adds zero to the total, its own segment has a
\* zero span, and every other segment has the angles it would have if that
\* amount were 0
C13_NaNAmountCountsAsZero ==
    HasNaN(data) =>
        LET asZero == slicesData(Zeroed(data), size, selectedIndex)
        IN  /\ total(data) = total(Zeroed(data))
            /\ \A i \in 1..Len(data) :
                  IF data[i].amount.nan
                  THEN Rendered[i].endAngle.k = "fin" /\ Span(Rendered[i]) = Num(0)
                  ELSE /\ Rendered[i].startAngle = asZero[i].startAngle
                       /\ Rendered[i].endAngle = asZero[i].endAngle


\* the same data and size drawn with nothing selected
Unselected == renders[data][size][Null]

\* the arcs of a path: their radii and their flags
Arcs(path) == SelectSeq(path, LAMBDA c : c.op = "A")
ArcRadii(path) == [j \in 1..Len(Arcs(path)) |-> Arcs(path)[j].rx]
ArcFlags(path) == [j \in 1..Len(Arcs(path)) |-> <<Arcs(path)[j].large, Arcs(path)[j].sweep>>]
Angles(sl) == [i \in 1..Len(sl) |-> <<sl[i].startAngle, sl[i].endAngle>>]

\* C14: the selected segment is drawn with the outer radius of the unselected
\* drawing plus exactly 8; its inner radius, every segment's angles and the
\* whole path of every other segment are those of the unselected drawing
C14_OnlySelectedOuterRadiusGrows ==
    InRange(selectedIndex, data) =>
        LET k     == selectedIndex[1] + 1
            outer == Num((size \div 2) - 10)
            was   == ArcRadii(Unselected[k].pathData)
        IN  /\ Angles(Rendered) = Angles(Unselected)
            /\ \A i \in 1..Len(Rendered) : i # k => Rendered[i].pathData = Unselected[i].pathData
            /\ \E j \in 1..Len(was) : was[j] = outer
            /\ ArcRadii(Rendered[k].pathData) =
                   [j \in 1..Len(was) |-> IF was[j] = outer THEN FAdd(outer, Num(8)) ELSE was[j]]
            /\ ArcFlags(Rendered[k].pathData) = ArcFlags(Unselected[k].pathData)

\* the second of two wedges is selected and drawn 8 wider than the first
C14_Witness ==
    /\ Len(data) = 2
    /\ selectedIndex = Some(1)
    /\ NonNegative(data) /\ TotalPositive(data)
    /\ Len(Rendered[1].pathData) = 5 /\ Len(Rendered[2].pathData) = 5
    /\ Rendered[1].pathData[2].rx = Num((size \div 2) - 10)
    /\ Rendered[2].pathData[2].rx = Num((size \div 2) - 10 + 8)
    /\ Rendered[2].pathData[4].rx = Rendered[1].pathData[4].rx


UnselectedPaths == paths(Unselected, Null)

\* what a <Path> shows besides its outline
Paint(p) == [key |-> p.key, fill |-> p.fill, stroke |-> p.stroke,
             strokeWidth |-> p.strokeWidth, opacity |-> p.opacity]

\* C15 as stated: but for the outline of the selected segment, every
\* segment is drawn as it is drawn with nothing selected
C15_RadiusIsOnlyEmphasis ==
    \A i \in 1..Len(Rendered) :
        /\ Paint(RenderedPaths[i]) = Paint(UnselectedPaths[i])
        /\ ~Rendered[i].isSelected => RenderedPaths[i].d = UnselectedPaths[i].d

\* C15 amended: while some index is selected every segment other than the
\* selected one is drawn at opacity 0.6, and at opacity 1 otherwise; key,
\* fill and stroke of every segment and the outline of every segment that
\* is not selected are those of the drawing with nothing selected
C15_EmphasisIsRadiusAndOpacity ==
    \A i \in 1..Len(Rendered) :
        /\ Paint(RenderedPaths[i]) =
              [Paint(UnselectedPaths[i]) EXCEPT
                  !.opacity = IF selectedIndex = Null \/ selectedIndex = Some(i - 1) THEN 10 ELSE 6]
        /\ ~Rendered[i].isSelected => RenderedPaths[i].d = UnselectedPaths[i].d

\* the first of two segments is selected and the second is dimmed
C15_Witness ==
    /\ Len(data) = 2
    /\ selectedIndex = Some(0)
    /\ RenderedPaths[1].opacity = 10
    /\ RenderedPaths[2].opacity = 6
    /\ RenderedPaths[2].d = UnselectedPaths[2].d
    /\ RenderedPaths[1].d # UnselectedPaths[1].d


\* the outline of segment j is redrawn by a step only when j is the selected
\* segment before or after it
OutlineKept(j) ==
    (selectedIndex # Some(j - 1) /\ selectedIndex' # Some(j - 1)) =>
        RenderedPaths'[j].d = RenderedPaths[j].d

\* C16 as stated: a tap leaves data, size, the angles, the hit regions and
\* the painting of every segment as they were; it changes the selection, the
\* outer radius of the segments it selects or deselects, and the label
C16_TapChangesOnlySelectionRadiusLabel ==
    [][\A i \in 0..(MaxLen - 1) : Tap(i) =>
          /\ data' = data /\ size' = size
          /\ Angles(Rendered') = Angles(Rendered)
          /\ RenderedOverlays' = RenderedOverlays
          /\ \A j \in 1..Len(data) :
                /\ Paint(RenderedPaths'[j]) = Paint(RenderedPaths[j])
                /\ OutlineKept(j)]_vars

\* C16 amended: a tap changes the selection, the outer radius of the
\* segments it selects or deselects, the opacity of the segments and the
\* label; data, size, hit regions, key, fill and stroke stay as they were,
\* and the angles of every segment are the same in every selection state
C16_TapKeepsAngles ==
    /\ [](\A s \in Selections : Angles(renders[data][size][s]) = Angles(Unselected))
    /\ [][\A i \in 0..(MaxLen - 1) : Tap(i) =>
             /\ data' = data /\ size' = size
             /\ Angles(Rendered') = Angles(Rendered)
             /\ RenderedOverlays' = RenderedOverlays
             /\ \A j \in 1..Len(data) :
                   /\ [Paint(RenderedPaths'[j]) EXCEPT !.opacity = 0]
                         = [Paint(RenderedPaths[j]) EXCEPT !.opacity = 0]
                   /\ OutlineKept(j)]_vars

\* a tap has just selected the second of two segments of positive width:
\* the first is dimmed and the angles are those of the unselected drawing
C16_Witness ==
    /\ Len(data) = 2
    /\ NonNegative(data) /\ TotalPositive(data)
    /\ pressed # <<>>
    /\ selectedIndex = Some(1)
    /\ FLt(Rendered[1].startAngle, Rendered[1].endAngle)
    /\ FLt(Rendered[2].startAngle, Rendered[2].endAngle)
    /\ Angles(Rendered) = Angles(Unselected)
    /\ RenderedPaths[1].opacity # UnselectedPaths[1].opacity


\* C17: in every selection state the hit region of every segment has the
\* centre and the size it has with nothing selected, and the centre lies at
\* the mid-angle on the radius half way between the inner radius and the
\* outer radius that is not enlarged
C17_HitRegionIgnoresSelection ==
    /\ \A s \in Selections : overlays[data][size][s] = overlays[data][size][Null]
    /\ \A i \in 1..Len(Rendered) :
          LET arcs  == Arcs(Rendered[i].pathData)
              inner == arcs[Len(arcs)].rx
              outer == Num((size \div 2) - 10)
          IN  /\ RenderedOverlays[i].center.r = FDivInt(FAdd(outer, inner), 2)
              /\ RenderedOverlays[i].center.deg =
                    FDivInt(FAdd(Rendered[i].startAngle, Rendered[i].endAngle), 2)

\* the second of two segments is selected, has a positive width and is drawn
\* enlarged, and its hit region is that of the unselected drawing
C17_Witness ==
    /\ Len(data) = 2
    /\ selectedIndex = Some(1)
    /\ NonNegative(data) /\ TotalPositive(data)
    /\ FLt(Rendered[2].startAngle, Rendered[2].endAngle)
    /\ Rendered[2].pathData # Unselected[2].pathData
    /\ RenderedOverlays[2] = overlays[data][size][Null][2]
    /\ FGe(RenderedOverlays[2].width, Num(60))


\* C18: the selection starts as none; a step changes it only when it is a
\* tap or a remount; a step that changes data or size leaves it as it was;
\* a remount sets it to none
C18_SelectionLifecycle ==
    /\ selectedIndex = Null
    /\ [][selectedIndex' # selectedIndex => (Remount \/ \E i \in 0..(MaxLen - 1) : Tap(i))]_vars
    /\ [][(data' # data \/ size' # size) => selectedIndex' = selectedIndex]_vars
    /\ [][Remount => selectedIndex' = Null]_vars

\* the second point was selected and then taken away by the host: the
\* selection still holds its index
C18_Witness ==
    /\ Len(data) = 1
    /\ selectedIndex = Some(1)
    /\ pressed = <<>>


\* C19: for the input [{A, 100}, {B, 300}] A has 25 percent and spans -90
\* to 0, and B has 75 percent and spans 0 to 270, exactly
C19_WorkedExample ==
    (/\ Len(data) = 2
     /\ data[1].name = "A" /\ data[1].amount = Amt(100)
     /\ data[2].name = "B" /\ data[2].amount = Amt(300)) =>
        /\ total(data) = Amt(400)
        /\ Percentages(data) = <<Num(25), Num(75)>>
        /\ Len(Rendered) = 2
        /\ Rendered[1].item.name = "A"
        /\ Angles(Rendered)[1] = <<Num(-90), Num(0)>>
        /\ Rendered[2].item.name = "B"
        /\ Angles(Rendered)[2] = <<Num(0), Num(270)>>

\* the chart is mounted with A 100 and B 300 and draws two segments
C19_Witness ==
    /\ Len(data) = 2
    /\ data[1].name = "A" /\ data[1].amount = Amt(100)
    /\ data[2].name = "B" /\ data[2].amount = Amt(300)
    /\ selectedIndex = Null
    /\ Len(Rendered) = 2
    /\ FLt(Rendered[1].startAngle, Rendered[2].startAngle)


\* C20: a tap on segment i, selecting or deselecting, calls the callback
\* exactly once, with (data[i], i) and after the selection update was
\* issued; without a callback it makes no call; data and size are untouched
C20_CallbackOncePerTap ==
    [][\A i \in 0..(MaxLen - 1) : Tap(i) =>
          /\ selectedIndex' # selectedIndex
          /\ data' = data /\ size' = size
          /\ IF hasOnSlicePress
             THEN /\ Len(pressed') = 1
                  /\ pressed'[1].item = data[i + 1]
                  /\ pressed'[1].index = i
                  /\ pressed'[1].issued = <<selectedIndex'>>
             ELSE pressed' = <<>>]_vars

\* a tap on the second segment has deselected it and called the callback
\* with that point and its index
C20_Witness ==
    /\ hasOnSlicePress
    /\ Len(data) = 2
    /\ data[1] # data[2]
    /\ selectedIndex = Null
    /\ pressed = <<[item |-> data[2], index |-> 1, issued |-> <<Null>>]>>


(***************************************************************************)
(* C21..C29                                                                *)
(***************************************************************************)
\* C21 as stated: every press, also one handled before the re-render of the
\* press before it, applies the toggle rule to the selection the presses
\* before it have left
C21_NoStalePress ==
    [][\A i \in 0..(MaxLen - 1) : Press(i) => selectedIndex' = toggle(selectedIndex, i)]_vars


\* C22 as stated: the selection is none or an index below the number of
\* points, and whenever the label shows the aggregate caption every segment
\* is drawn at full opacity
C22_SelectionInRangeOfData ==
    /\ selectedIndex = Null \/ selectedIndex[1] < Len(data)
    /\ Label.mode = "aggregate" => \A i \in 1..Len(Rendered) : RenderedPaths[i].opacity = 10


\* the point whose name and amount the detail label shows, if any
Shown == selectedItem(data, selectedIndex)

\* C23 as stated: a step that changes the data never puts into the detail
\* label a point other than the one it showed before the step
C23_LabelKeepsTappedPoint ==
    [][(data' # data /\ Shown' # <<>>) => Shown' = Shown]_vars


\* d without its i-th point
Without(d, i) == [k \in 1..(Len(d) - 1) |-> IF k < i THEN d[k] ELSE d[k + 1]]
NoNaN(d) == \A i \in 1..Len(d) : ~d[i].amount.nan
Negative(p) == ~p.amount.nan /\ p.amount.v < 0

AtMostWithinMillionth(x, y) == FLe(x, y) \/ WithinMillionth(x, y)

\* C25 as stated: for non-negative amounts with total > 0 every segment has
\* -90 <= startAngle <= endAngle <= 270, and the endAngles never decrease
C25_AnglesWithinTurn ==
    (NonNegative(data) /\ TotalPositive(data)) =>
        /\ \A i \in 1..Len(Rendered) :
              /\ FLe(Num(-90), Rendered[i].startAngle)
              /\ FLe(Rendered[i].startAngle, Rendered[i].endAngle)
              /\ FLe(Rendered[i].endAngle, Num(270))
        /\ \A i \in 2..Len(Rendered) : FLe(Rendered[i - 1].endAngle, Rendered[i].endAngle)

\* C25 amended: for non-negative amounts with total > 0 every segment has
\* -90 <= startAngle <= endAngle <= 270 + 1e-6, and the endAngles never
\* decrease
C25_AnglesWithinTurnUpToRounding ==
    (NonNegative(data) /\ TotalPositive(data)) =>
        /\ \A i \in 1..Len(Rendered) :
              /\ FLe(Num(-90), Rendered[i].startAngle)
              /\ FLe(Rendered[i].startAngle, Rendered[i].endAngle)
              /\ AtMostWithinMillionth(Rendered[i].endAngle, Num(270))
        /\ \A i \in 2..Len(Rendered) : FLe(Rendered[i - 1].endAngle, Rendered[i].endAngle)

\* two positive amounts whose last endAngle is a rounding error above 270
C25_Witness ==
    /\ Len(data) = 2
    /\ \A i \in 1..2 : ~data[i].amount.nan /\ data[i].amount.v > 0
    /\ FLt(Rendered[1].endAngle, Rendered[2].endAngle)
    /\ FGt(Rendered[2].endAngle, Num(270))
    /\ WithinMillionth(Rendered[2].endAngle, Num(270))


\* the segments drawn with the full-ring path
Rings == {i \in 1..Len(Rendered) : IsFullRing(Rendered[i].pathData, size, OuterRadius(Rendered[i]))}

\* C26 as stated: for non-negative amounts with total > 0 at most one
\* segment is a full ring, and then every other amount is zero
C26_RingOnlyForSoleAmount ==
    (NonNegative(data) /\ TotalPositive(data)) =>
        /\ Cardinality(Rings) <= 1
        /\ \A i \in Rings : OnlyNonZero(data, i)

\* C26 amended: for non-negative amounts with total > 0 at most one segment
\* is a full ring, and then its span is at least 359.9: the other amounts
\* together span at most 0.1001 degrees (3600000 * others <= 1001 * total)
C26_RingOnlyFromThreshold ==
    (NonNegative(data) /\ TotalPositive(data)) =>
        /\ Cardinality(Rings) <= 1
        /\ \A i \in Rings :
              /\ FGe(Span(Rendered[i]), RingThreshold)
              /\ 3600000 * (total(data).v - data[i].amount.v) <= 1001 * total(data).v

\* the second of two positive amounts is drawn as a full ring over the first
C26_Witness ==
    /\ Len(data) = 2
    /\ \A i \in 1..2 : ~data[i].amount.nan /\ data[i].amount.v > 0
    /\ Rings = {2}
    /\ FLt(Rendered[1].startAngle, Rendered[1].endAngle)


\* the step before was a tap on slice i (seen by the callback it made)
JustTapped(i) == pressed # <<>> /\ pressed[1].index = i

\* C27 as stated: the second of two successive taps on the same segment
\* always leaves the selection none
C27_DoubleTapEndsNone ==
    [][\A i \in 0..(MaxLen - 1) : (JustTapped(i) /\ Tap(i)) => selectedIndex' = Null]_vars

\* C27 amended: the second of two successive taps on segment i leaves the
\* selection none when the first tap selected i (the selection before was
\* none or another index), and leaves it i when the first tap deselected i
\* (the selection before was i, which the two taps restore)
C27_DoubleTapUndoesFirstTap ==
    /\ [][\A i \in 0..(MaxLen - 1) : (JustTapped(i) /\ Tap(i)) =>
             /\ pressed[1].issued \in {<<Some(i)>>, <<Null>>}
             /\ pressed[1].issued = <<Some(i)>> => selectedIndex' = Null
             /\ pressed[1].issued = <<Null>> => selectedIndex' = Some(i)]_vars
    /\ [](\A i \in 0..(Len(data) - 1) : JustTapped(i) =>
             ENABLED (Tap(i) /\ selectedIndex' =
                         IF pressed[1].issued = <<Some(i)>> THEN Null ELSE Some(i)))

\* a tap has deselected slice 0 of two slices, so that a second tap on it
\* selects it again
C27_Witness ==
    /\ Len(data) = 2
    /\ hasOnSlicePress
    /\ JustTapped(0)
    /\ pressed[1].issued = <<Null>>
    /\ selectedIndex = Null
    /\ closureIndex = Null


\* the stored 'out' transactions of the selected month and project
ChartedTransactions ==
    {k \in 1..Len(host.transactions) :
        LET t == host.transactions[k]
        IN  /\ t.type = "out"
            /\ t.month = host.selectedMonth
            /\ host.selectedProject \in {"all", t.project}}

\* C28: the chart is mounted exactly when the selected month and project
\* hold an 'out' transaction; the data it is then given are the sums of
\* those transactions by material, every one positive, so the total is > 0;
\* with no chart mounted there is no selection
C28_ChartMountedOnlyWithExpenses ==
    /\ data = pieChartData(host)
    /\ chartMounted(host) <=> ChartedTransactions # {}
    /\ chartMounted(host) =>
          /\ NonNegative(data) /\ TotalPositive(data)
          /\ \A i \in 1..Len(data) : data[i].amount.v > 0
          /\ {data[i].name : i \in 1..Len(data)} =
                 {host.transactions[k].material : k \in ChartedTransactions}
    /\ ~chartMounted(host) => data = <<>> /\ selectedIndex = Null

\* a receipt and an expense of the selected month are stored: the chart is
\* mounted with the one material of the expense
C28_Witness ==
    /\ Len(host.transactions) = 2
    /\ host.transactions[1].type = "in"
    /\ host.transactions[1].month = host.selectedMonth
    /\ host.transactions[1].material # host.transactions[2].material
    /\ ChartedTransactions = {2}
    /\ chartMounted(host)
    /\ Len(data) = 1
    /\ data[1].name = host.transactions[2].material


\* the total of material m over the transactions ts as the service of the
\* given type counts them, by a sum over the positions
RECURSIVE NetOf(_, _, _, _)
NetOf(ts, m, type, i) ==
    IF i > Len(ts) THEN 0
    ELSE NetOf(ts, m, type, i + 1) +
         (IF ts[i].material # m \/ (type # "both" /\ ts[i].type # type) THEN 0
          ELSE IF type = "both" /\ ts[i].type = "out" THEN 0 - ts[i].amount
          ELSE ts[i].amount)

MaterialsOf(ts, type) ==
    {ts[i].material : i \in {k \in 1..Len(ts) : type = "both" \/ ts[k].type = type}}

RECURSIVE SumOfAbsNets(_, _, _)
SumOfAbsNets(ts, type, ms) ==
    IF ms = {} THEN 0
    ELSE LET m == CHOOSE x \in ms : TRUE
         IN  Abs(NetOf(ts, m, type, 1)) + SumOfAbsNets(ts, type, ms \ {m})

\* what C29 says of one result but for the sum of the percentages
ChartDataWellFormed(ts, type, items) ==
    LET sum == SumOfAbsNets(ts, type, MaterialsOf(ts, type))
    IN  /\ sum = 0 <=> items = <<>>
        /\ sum # 0 =>
              /\ Len(items) = Cardinality(MaterialsOf(ts, type))
              /\ {items[i].name : i \in 1..Len(items)} = MaterialsOf(ts, type)
              /\ \A i \in 1..Len(items) :
                    /\ items[i].amount = Abs(NetOf(ts, items[i].name, type, 1))
                    /\ items[i].amount >= 0
                    /\ WithinMillionthOfPercent(items[i].percentage, items[i].amount, sum)
              /\ \A i \in 2..Len(items) : items[i - 1].amount >= items[i].amount
              /\ sum > 0

PercentagesOf(items) == [i \in 1..Len(items) |-> items[i].percentage]

\* C29 as stated: the result is [] when the absolute totals sum to 0, and
\* otherwise one item per material, amounts non-negative with a positive
\* sum, sorted by amount, largest first, with percentages that sum to 100
C29_ChartDataSumsTo100 ==
    \A type \in ChartTypes :
        LET items == generatePieChartData(host.transactions, type)
        IN  /\ ChartDataWellFormed(host.transactions, type, items)
            /\ items # <<>> => SumExact(PercentagesOf(items), 1) = Num(100)

\* C29 amended: the same, with percentages that sum to 100 within 1e-6
C29_ChartDataSumsTo100Within1e6 ==
    \A type \in ChartTypes :
        LET items == generatePieChartData(host.transactions, type)
        IN  /\ ChartDataWellFormed(host.transactions, type, items)
            /\ items # <<>> => WithinMillionth(SumExact(PercentagesOf(items), 1), Num(100))

\* an expense of 1 on one material and then one of 2 on another: the result
\* lists the larger first, and the percentages miss 100 by a rounding error
C29_Witness ==
    LET items == generatePieChartData(host.transactions, "out")
    IN  /\ Len(host.transactions) = 2
        /\ Len(items) = 2
        /\ items[1].name = host.transactions[2].material
        /\ items[1].amount = 2 /\ items[2].amount = 1
        /\ SumExact(PercentagesOf(items), 1) # Num(100)
        /\ WithinMillionth(SumExact(PercentagesOf(items), 1), Num(100))

====
